---- MODULE Spec2Model ----
(***************************************************************************)
(* LamoEditor Pro (src/main.py): the timeline, its undo/redo history, the  *)
(* in/out range, the project codec and the export thread.                  *)
(*                                                                         *)
(* Times are integers (milliseconds); slider and spin-box values are the   *)
(* integers the widgets hold (percent, hundredths). A Python str/tuple/    *)
(* list position is [kind, parts] so that tuple and list stay distinct.    *)
(***************************************************************************)
EXTENDS Integers, Sequences, FiniteSets, TLC

VARIABLES
    current_video_path,     \* self.current_video_path ("" is None)
    video_segments,         \* self.video_segments (the one list object)
    text_overlays,          \* self.text_overlays (the one list object)
    undo_stack,             \* self.undo_stack: JSON snapshots, top is last
    redo_stack,             \* self.redo_stack
    clip_duration,          \* self.clip_duration
    in_time,                \* self.in_time
    out_time,               \* self.out_time
    current_segment_index,  \* self.current_segment_index
    timeline_list,          \* rows of the QListWidget self.timeline_list
    text_list,              \* rows of the QListWidget self.text_list
    text_row,               \* self.text_list.currentRow()
    export_btn,             \* self.export_btn.isEnabled()
    threads,                \* the ExportThread objects alive, in start order
    aborted,                \* an exception left a slot: PyQt6 aborts
    project_file,           \* the file save_project last wrote
    phase,                  \* history: what the last handlers were
    pre_tl,                 \* history: timeline before the last mutation
    post_tl,                \* history: timeline after the last mutation
    run                     \* history: mutations, then undos, since Init

ui == <<current_video_path, video_segments, text_overlays, undo_stack,
        redo_stack, clip_duration, in_time, out_time, current_segment_index,
        timeline_list, text_list, text_row, export_btn, aborted,
        project_file>>
ghost == <<phase, pre_tl, post_tl, run>>
vars == <<ui, threads, ghost>>

(***************************************************************************)
(* Program constants and the bounds of the model.                          *)
(***************************************************************************)
HistoryLimit == 50          \* save_state: len(self.undo_stack) > 50
SegmentShare == 50          \* ExportThread.run: (i + 1) / len * 50
ConcatProgress == 60        \* ExportThread.run: self.progress.emit(60)
DoneProgress == 100         \* ExportThread.run: self.progress.emit(100)
UnitPercent == 100          \* slider value 100 is the factor 1.0
UnitSpeed == 100            \* speed_spin value 1.00, in hundredths
DefaultFontSize == 50       \* font_size_spin.setValue(50)
DefaultTextDuration == 5000 \* text_duration_spin.setValue(5.0)

MaxSegs == 2                \* segments on the timeline (Spec, SpecExport)
MaxOverlays == 1            \* overlays on the timeline (Spec, SpecExport)
MaxDepth == 2               \* snapshots on undo_stack (Spec)
MaxPos == 3                 \* player positions and clip durations
MaxRangeSegs == 1           \* segments on the timeline (SpecRange)
MaxThreads == 2             \* export threads started (SpecExport)
MaxEdits == 3               \* mutations of the timeline (SpecExport)
MaxChain == 52              \* volume steps of the one segment (SpecHistory)

None == ""

\* no project file written yet
NoFile == [kind |-> "none", segments |-> <<>>, text_overlays |-> <<>>]
Timeline == <<video_segments, text_overlays>>

(***************************************************************************)
(* Entity model: VideoSegment, TextOverlay, their to_dict, and json.       *)
(***************************************************************************)
VideoSegment(path, start_time, end_time, duration, effects, volume, speed) ==
    [path |-> path, start_time |-> start_time, end_time |-> end_time,
     duration |-> duration, effects |-> effects, volume |-> volume,
     speed |-> speed]

TextOverlay(text, start_time, duration, position, font_size, color, font) ==
    [text |-> text, start_time |-> start_time, duration |-> duration,
     position |-> position, font_size |-> font_size, color |-> color,
     font |-> font]

Str(s) == [kind |-> "str", parts |-> <<s>>]
Tuple(a, b) == [kind |-> "tuple", parts |-> <<a, b>>]

\* add_text_overlay's position_map
position_map(name) ==
    CASE name = "center" -> Str("center")
      [] name = "top" -> Tuple("center", "top")
      [] name = "bottom" -> Tuple("center", "bottom")
      [] name = "left" -> Tuple("left", "center")
      [] name = "right" -> Tuple("right", "center")

segment_to_dict(seg) ==
    [path |-> seg.path, start_time |-> seg.start_time,
     end_time |-> seg.end_time, duration |-> seg.duration,
     effects |-> seg.effects, volume |-> seg.volume, speed |-> seg.speed]

overlay_to_dict(ov) ==
    [text |-> ov.text, start_time |-> ov.start_time, duration |-> ov.duration,
     position |-> ov.position, font_size |-> ov.font_size, color |-> ov.color,
     font |-> ov.font]

\* json.dumps writes a tuple and a list alike as an array
json_dumps_value(v) ==
    IF v.kind \in {"tuple", "list"} THEN [kind |-> "array", parts |-> v.parts]
    ELSE v

\* json.loads reads an array as a list
json_loads_value(v) ==
    IF v.kind = "array" THEN [kind |-> "list", parts |-> v.parts] ELSE v

json_dumps(state) ==
    [segments |-> state.segments,
     text_overlays |->
        [k \in DOMAIN state.text_overlays |->
            [state.text_overlays[k] EXCEPT
                !.position = json_dumps_value(@)]]]

json_loads(doc) ==
    [segments |-> doc.segments,
     text_overlays |->
        [k \in DOMAIN doc.text_overlays |->
            [doc.text_overlays[k] EXCEPT
                !.position = json_loads_value(@)]]]

\* the dict save_state, undo, redo and save_project build from the timeline
state_dict(segs, ovs) ==
    [segments |-> [k \in DOMAIN segs |-> segment_to_dict(segs[k])],
     text_overlays |-> [k \in DOMAIN ovs |-> overlay_to_dict(ovs[k])]]

\* VideoSegment(**seg_data) for each record of a loaded state
load_segments(state) ==
    [k \in DOMAIN state.segments |->
        LET d == state.segments[k] IN
        VideoSegment(d.path, d.start_time, d.end_time, d.duration, d.effects,
                     d.volume, d.speed)]

\* TextOverlay(**overlay_data) for each record of a loaded state
load_overlays(state) ==
    [k \in DOMAIN state.text_overlays |->
        LET d == state.text_overlays[k] IN
        TextOverlay(d.text, d.start_time, d.duration, d.position, d.font_size,
                    d.color, d.font)]

(***************************************************************************)
(* History: save_state, restore_state.                                     *)
(***************************************************************************)
\* save_state pushing nothing
save_state_skipped(stack, segs, ovs) == stack

\* save_state without the size limit
save_state_unbounded(stack, segs, ovs) ==
    Append(stack, json_dumps(state_dict(segs, ovs)))

\* save_state evicting with pop() instead of pop(0)
save_state_pop_last(stack, segs, ovs) ==
    LET pushed == Append(stack, json_dumps(state_dict(segs, ovs))) IN
    IF Len(pushed) > HistoryLimit
    THEN SubSeq(pushed, 1, Len(pushed) - 1) ELSE pushed

\* the undo stack after save_state()
save_state(stack, segs, ovs) ==
    LET pushed == Append(stack, json_dumps(state_dict(segs, ovs))) IN
    IF Len(pushed) > HistoryLimit THEN Tail(pushed) ELSE pushed

\* restore_state(state_json): the lists are refilled, the widgets rebuilt
restore_state(state_json) ==
    LET state == json_loads(state_json) IN
    /\ video_segments' = load_segments(state)
    /\ text_overlays' = load_overlays(state)
    /\ timeline_list' = Len(state.segments)
    /\ text_list' = Len(state.text_overlays)
    /\ text_row' = -1

(***************************************************************************)
(* History variables: the timeline around the last mutation, and whether   *)
(* the handlers since were exactly undo, or undo then redo.                *)
(***************************************************************************)
NoTimeline == <<<<>>, <<>>>>

\* run.track is "idle" until the first mutation, "mutating" while every
\* handler since was a mutation, "undoing" while they were run.muts mutations
\* and then run.undos undos, "off" after anything else
NoRun ==
    [track |-> "idle", muts |-> 0, undos |-> 0, start_tl |-> NoTimeline,
     first_tl |-> NoTimeline]

RunOff == [NoRun EXCEPT !.track = "off"]

\* phase "unobserved" and run.track "off" stay: nothing is recorded
NoteMutation ==
    /\ IF phase = "unobserved"
       THEN UNCHANGED <<phase, pre_tl, post_tl>>
       ELSE /\ phase' = "mutated"
            /\ pre_tl' = Timeline
            /\ post_tl' = Timeline'
    /\ run' = CASE run.track = "idle" ->
                     [track |-> "mutating", muts |-> 1, undos |-> 0,
                      start_tl |-> Timeline, first_tl |-> Timeline']
                [] run.track = "mutating" -> [run EXCEPT !.muts = @ + 1]
                [] OTHER -> RunOff

NoteUndo ==
    /\ IF phase = "mutated"
       THEN phase' = "undone" /\ UNCHANGED <<pre_tl, post_tl>>
       ELSE /\ phase' = IF phase = "unobserved" THEN phase ELSE "other"
            /\ pre_tl' = NoTimeline
            /\ post_tl' = NoTimeline
    /\ run' = IF run.track \in {"mutating", "undoing"}
              THEN [run EXCEPT !.track = "undoing", !.undos = @ + 1]
              ELSE run

NoteRedo ==
    /\ IF phase = "undone"
       THEN phase' = "redone" /\ UNCHANGED <<pre_tl, post_tl>>
       ELSE /\ phase' = IF phase = "unobserved" THEN phase ELSE "other"
            /\ pre_tl' = NoTimeline
            /\ post_tl' = NoTimeline
    /\ run' = IF run.track = "idle" THEN run ELSE RunOff

NoteOther ==
    /\ phase' = IF phase = "unobserved" THEN phase ELSE "other"
    /\ pre_tl' = NoTimeline
    /\ post_tl' = NoTimeline
    /\ run' = IF run.track = "idle" THEN run ELSE RunOff

\* a handler that reads or writes neither the timeline nor its history
NoteView ==
    /\ phase' = IF phase = "unobserved" THEN phase ELSE "other"
    /\ pre_tl' = NoTimeline
    /\ post_tl' = NoTimeline
    /\ UNCHANGED run

\* save_project: the timeline it wrote is kept in pre_tl
NoteSave ==
    /\ IF phase = "unobserved"
       THEN UNCHANGED <<phase, pre_tl, post_tl>>
       ELSE phase' = "saved" /\ pre_tl' = Timeline /\ post_tl' = NoTimeline
    /\ run' = IF run.track = "idle" THEN run ELSE RunOff

\* load_project of `file`: right after save_project wrote that file, the
\* timeline saved stays in pre_tl
NoteLoad(file) ==
    IF phase = "saved" /\ file = project_file
    THEN /\ phase' = "loaded"
         /\ UNCHANGED <<pre_tl, post_tl>>
         /\ run' = IF run.track = "idle" THEN run ELSE RunOff
    ELSE NoteOther

RemoveAt(s, k) == [j \in 1..(Len(s) - 1) |-> IF j < k THEN s[j] ELSE s[j + 1]]

Swap(s, a, b) == [s EXCEPT ![a] = s[b], ![b] = s[a]]

(***************************************************************************)
(* Range: open_video, on_duration_changed, set_in_point, set_out_point.    *)
(***************************************************************************)
\* path = None is the cancelled dialog; readable is whether VideoFileClip
\* could read the file, dur the duration it reports
open_video(path, readable, dur) ==
    /\ ~aborted
    /\ UNCHANGED project_file
    /\ IF path = None
       THEN UNCHANGED <<current_video_path, clip_duration, in_time, out_time>>
       ELSE /\ current_video_path' = path
            /\ clip_duration' = IF readable THEN dur ELSE 0
            /\ out_time' = IF readable THEN dur ELSE out_time
            /\ in_time' = 0
    /\ UNCHANGED <<video_segments, text_overlays, undo_stack, redo_stack,
                   current_segment_index, timeline_list, text_list, text_row,
                   export_btn, aborted, threads>>
    /\ NoteView

\* the player's durationChanged signal; the player has a source only after
\* open_video set one
on_duration_changed(dur) ==
    /\ ~aborted
    /\ UNCHANGED project_file
    /\ current_video_path # None
    /\ IF dur > 0 /\ clip_duration = 0
       THEN clip_duration' = dur /\ out_time' = dur
       ELSE UNCHANGED <<clip_duration, out_time>>
    /\ UNCHANGED <<current_video_path, video_segments, text_overlays,
                   undo_stack, redo_stack, in_time, current_segment_index,
                   timeline_list, text_list, text_row, export_btn, aborted,
                   threads>>
    /\ NoteView

\* pos_ms is self.player.position()
set_in_point(pos_ms) ==
    LET t == IF pos_ms < 0 THEN 0 ELSE pos_ms IN
    /\ ~aborted
    /\ UNCHANGED project_file
    /\ in_time' = t
    /\ out_time' = IF out_time # 0 /\ t > out_time THEN t ELSE out_time
    /\ UNCHANGED <<current_video_path, video_segments, text_overlays,
                   undo_stack, redo_stack, clip_duration,
                   current_segment_index, timeline_list, text_list, text_row,
                   export_btn, aborted, threads>>
    /\ NoteView

set_out_point(pos_ms) ==
    LET t == IF pos_ms > clip_duration THEN clip_duration ELSE pos_ms IN
    /\ ~aborted
    /\ UNCHANGED project_file
    /\ out_time' = t
    /\ in_time' = IF t < in_time THEN t ELSE in_time
    /\ UNCHANGED <<current_video_path, video_segments, text_overlays,
                   undo_stack, redo_stack, clip_duration,
                   current_segment_index, timeline_list, text_list, text_row,
                   export_btn, aborted, threads>>
    /\ NoteView

(***************************************************************************)
(* Timeline operations.                                                    *)
(***************************************************************************)
\* add_segment_to_timeline without the test of the range
add_segment_unchecked ==
    /\ ~aborted
    /\ UNCHANGED project_file
    /\ current_video_path # None
    /\ undo_stack' = save_state(undo_stack, video_segments, text_overlays)
    /\ redo_stack' = <<>>
    /\ video_segments' =
         Append(video_segments,
                VideoSegment(current_video_path, in_time, out_time,
                             out_time - in_time, <<>>, UnitPercent, UnitSpeed))
    /\ timeline_list' = Len(video_segments')
    /\ NoteMutation
    /\ UNCHANGED <<current_video_path, text_overlays, clip_duration, in_time,
                   out_time, current_segment_index, text_list, text_row,
                   export_btn, aborted, threads>>

add_segment_to_timeline ==
    /\ ~aborted
    /\ UNCHANGED project_file
    /\ IF current_video_path = None \/ in_time >= out_time
       THEN /\ UNCHANGED <<video_segments, undo_stack, redo_stack,
                           timeline_list>>
            /\ NoteOther
       ELSE /\ undo_stack' = save_state(undo_stack, video_segments,
                                        text_overlays)
            /\ redo_stack' = <<>>
            /\ video_segments' =
                 Append(video_segments,
                        VideoSegment(current_video_path, in_time, out_time,
                                     out_time - in_time, <<>>, UnitPercent,
                                     UnitSpeed))
            /\ timeline_list' = Len(video_segments')
            /\ UNCHANGED text_overlays
            /\ NoteMutation
    /\ UNCHANGED <<current_video_path, text_overlays, clip_duration, in_time,
                   out_time, current_segment_index, text_list, text_row,
                   export_btn, aborted, threads>>

\* a click on row `row` of the timeline list widget
on_timeline_item_clicked(row) ==
    /\ ~aborted
    /\ UNCHANGED project_file
    /\ row \in 0..(timeline_list - 1)
    /\ current_segment_index' = row
    /\ UNCHANGED <<current_video_path, video_segments, text_overlays,
                   undo_stack, redo_stack, clip_duration, in_time, out_time,
                   timeline_list, text_list, text_row, export_btn, aborted,
                   threads>>
    /\ NoteView

\* move_segment_up leaving the selection on the row it was
move_segment_up_row_stays ==
    LET idx == current_segment_index IN
    /\ ~aborted
    /\ UNCHANGED project_file
    /\ IF idx > 0
       THEN /\ undo_stack' = save_state(undo_stack, video_segments,
                                        text_overlays)
            /\ redo_stack' = <<>>
            /\ IF idx < Len(video_segments)
               THEN /\ video_segments' = Swap(video_segments, idx + 1, idx)
                    /\ current_segment_index' = idx
                    /\ timeline_list' = Len(video_segments')
                    /\ UNCHANGED <<aborted, text_overlays>>
                    /\ NoteMutation
               ELSE /\ aborted' = TRUE
                    /\ UNCHANGED <<video_segments, current_segment_index,
                                   timeline_list>>
                    /\ NoteOther
       ELSE /\ UNCHANGED <<undo_stack, redo_stack, video_segments,
                           current_segment_index, timeline_list, aborted>>
            /\ NoteOther
    /\ UNCHANGED <<current_video_path, text_overlays, clip_duration, in_time,
                   out_time, text_list, text_row, export_btn, threads>>

\* with an index past the end, the swap raises IndexError after save_state
move_segment_up ==
    LET idx == current_segment_index IN
    /\ ~aborted
    /\ UNCHANGED project_file
    /\ IF idx > 0
       THEN /\ undo_stack' = save_state(undo_stack, video_segments,
                                        text_overlays)
            /\ redo_stack' = <<>>
            /\ IF idx < Len(video_segments)
               THEN /\ video_segments' = Swap(video_segments, idx + 1, idx)
                    /\ current_segment_index' = idx - 1
                    /\ timeline_list' = Len(video_segments')
                    /\ UNCHANGED <<aborted, text_overlays>>
                    /\ NoteMutation
               ELSE /\ aborted' = TRUE
                    /\ UNCHANGED <<video_segments, current_segment_index,
                                   timeline_list>>
                    /\ NoteOther
       ELSE /\ UNCHANGED <<undo_stack, redo_stack, video_segments,
                           current_segment_index, timeline_list, aborted>>
            /\ NoteOther
    /\ UNCHANGED <<current_video_path, text_overlays, clip_duration, in_time,
                   out_time, text_list, text_row, export_btn, threads>>

move_segment_down ==
    LET idx == current_segment_index IN
    /\ ~aborted
    /\ UNCHANGED project_file
    /\ IF 0 <= idx /\ idx < Len(video_segments) - 1
       THEN /\ undo_stack' = save_state(undo_stack, video_segments,
                                        text_overlays)
            /\ redo_stack' = <<>>
            /\ video_segments' = Swap(video_segments, idx + 1, idx + 2)
            /\ current_segment_index' = idx + 1
            /\ timeline_list' = Len(video_segments')
            /\ UNCHANGED text_overlays
            /\ NoteMutation
       ELSE /\ UNCHANGED <<undo_stack, redo_stack, video_segments,
                           current_segment_index, timeline_list>>
            /\ NoteOther
    /\ UNCHANGED <<current_video_path, text_overlays, clip_duration, in_time,
                   out_time, text_list, text_row, export_btn, aborted,
                   threads>>

\* remove_segment deleting the last segment, whichever is selected
remove_segment_last ==
    LET idx == current_segment_index IN
    /\ ~aborted
    /\ UNCHANGED project_file
    /\ IF 0 <= idx /\ idx < Len(video_segments)
       THEN /\ undo_stack' = save_state(undo_stack, video_segments,
                                        text_overlays)
            /\ redo_stack' = <<>>
            /\ video_segments' = RemoveAt(video_segments, Len(video_segments))
            /\ current_segment_index' = -1
            /\ timeline_list' = Len(video_segments')
            /\ UNCHANGED text_overlays
            /\ NoteMutation
       ELSE /\ UNCHANGED <<undo_stack, redo_stack, video_segments,
                           current_segment_index, timeline_list>>
            /\ NoteOther
    /\ UNCHANGED <<current_video_path, text_overlays, clip_duration, in_time,
                   out_time, text_list, text_row, export_btn, aborted,
                   threads>>

remove_segment ==
    LET idx == current_segment_index IN
    /\ ~aborted
    /\ UNCHANGED project_file
    /\ IF 0 <= idx /\ idx < Len(video_segments)
       THEN /\ undo_stack' = save_state(undo_stack, video_segments,
                                        text_overlays)
            /\ redo_stack' = <<>>
            /\ video_segments' = RemoveAt(video_segments, idx + 1)
            /\ current_segment_index' = -1
            /\ timeline_list' = Len(video_segments')
            /\ UNCHANGED text_overlays
            /\ NoteMutation
       ELSE /\ UNCHANGED <<undo_stack, redo_stack, video_segments,
                           current_segment_index, timeline_list>>
            /\ NoteOther
    /\ UNCHANGED <<current_video_path, text_overlays, clip_duration, in_time,
                   out_time, text_list, text_row, export_btn, aborted,
                   threads>>

\* yes is the answer to the confirmation question
clear_timeline(yes) ==
    /\ ~aborted
    /\ UNCHANGED project_file
    /\ IF yes
       THEN /\ undo_stack' = save_state(undo_stack, video_segments,
                                        text_overlays)
            /\ redo_stack' = <<>>
            /\ video_segments' = <<>>
            /\ timeline_list' = 0
            /\ UNCHANGED text_overlays
            /\ NoteMutation
       ELSE /\ UNCHANGED <<undo_stack, redo_stack, video_segments,
                           timeline_list>>
            /\ NoteOther
    /\ UNCHANGED <<current_video_path, text_overlays, clip_duration, in_time,
                   out_time, current_segment_index, text_list, text_row,
                   export_btn, aborted, threads>>

(***************************************************************************)
(* Effects and volume.                                                     *)
(***************************************************************************)
Effect(type, value) == [type |-> type, has_value |-> TRUE, value |-> value]

Flag(type) == [type |-> type, has_value |-> FALSE, value |-> 0]

\* the list apply_effects builds from the controls, in the order it appends
effects_of(brightness, contrast, rotation, blackwhite, mirror_x, mirror_y) ==
    (IF brightness # UnitPercent
        THEN <<Effect("brightness", brightness)>> ELSE <<>>)
    \o (IF contrast # UnitPercent
        THEN <<Effect("contrast", contrast)>> ELSE <<>>)
    \o (IF rotation # 0 THEN <<Effect("rotate", rotation)>> ELSE <<>>)
    \o (IF blackwhite THEN <<Flag("blackwhite")>> ELSE <<>>)
    \o (IF mirror_x THEN <<Flag("mirror_x")>> ELSE <<>>)
    \o (IF mirror_y THEN <<Flag("mirror_y")>> ELSE <<>>)

\* apply_effects appending to the list the segment holds
apply_effects_append(c) ==
    LET idx == current_segment_index IN
    /\ ~aborted
    /\ UNCHANGED project_file
    /\ IF idx < 0 \/ idx >= Len(video_segments)
       THEN /\ UNCHANGED <<undo_stack, redo_stack, video_segments,
                           timeline_list>>
            /\ NoteOther
       ELSE /\ undo_stack' = save_state(undo_stack, video_segments,
                                        text_overlays)
            /\ redo_stack' = <<>>
            /\ video_segments' =
                 [video_segments EXCEPT
                    ![idx + 1].effects =
                        @ \o effects_of(c.brightness, c.contrast, c.rotation,
                                   c.blackwhite, c.mirror_x, c.mirror_y),
                    ![idx + 1].speed = c.speed]
            /\ timeline_list' = Len(video_segments')
            /\ UNCHANGED text_overlays
            /\ NoteMutation
    /\ UNCHANGED <<current_video_path, text_overlays, clip_duration, in_time,
                   out_time, current_segment_index, text_list, text_row,
                   export_btn, aborted, threads>>

\* apply_effects with a snapshot that shares the segment's effects list, which
\* is then emptied and refilled
apply_effects_aliased(c) ==
    LET idx == current_segment_index IN
    /\ ~aborted
    /\ UNCHANGED project_file
    /\ IF idx < 0 \/ idx >= Len(video_segments)
       THEN /\ UNCHANGED <<undo_stack, redo_stack, video_segments,
                           timeline_list>>
            /\ NoteOther
       ELSE /\ undo_stack' =
                 save_state(undo_stack,
                            [video_segments EXCEPT
                               ![idx + 1].effects =
                                   effects_of(c.brightness, c.contrast,
                                              c.rotation, c.blackwhite,
                                              c.mirror_x, c.mirror_y)],
                            text_overlays)
            /\ redo_stack' = <<>>
            /\ video_segments' =
                 [video_segments EXCEPT
                    ![idx + 1].effects =
                        effects_of(c.brightness, c.contrast, c.rotation,
                                   c.blackwhite, c.mirror_x, c.mirror_y),
                    ![idx + 1].speed = c.speed]
            /\ timeline_list' = Len(video_segments')
            /\ UNCHANGED text_overlays
            /\ NoteMutation
    /\ UNCHANGED <<current_video_path, text_overlays, clip_duration, in_time,
                   out_time, current_segment_index, text_list, text_row,
                   export_btn, aborted, threads>>

\* c is the state of the effect controls
apply_effects(c) ==
    LET idx == current_segment_index IN
    /\ ~aborted
    /\ UNCHANGED project_file
    /\ IF idx < 0 \/ idx >= Len(video_segments)
       THEN /\ UNCHANGED <<undo_stack, redo_stack, video_segments,
                           timeline_list>>
            /\ NoteOther
       ELSE /\ undo_stack' = save_state(undo_stack, video_segments,
                                        text_overlays)
            /\ redo_stack' = <<>>
            /\ video_segments' =
                 [video_segments EXCEPT
                    ![idx + 1].effects =
                        effects_of(c.brightness, c.contrast, c.rotation,
                                   c.blackwhite, c.mirror_x, c.mirror_y),
                    ![idx + 1].speed = c.speed]
            /\ timeline_list' = Len(video_segments')
            /\ UNCHANGED text_overlays
            /\ NoteMutation
    /\ UNCHANGED <<current_video_path, text_overlays, clip_duration, in_time,
                   out_time, current_segment_index, text_list, text_row,
                   export_btn, aborted, threads>>

\* volume is self.volume_slider.value()
apply_volume(volume) ==
    LET idx == current_segment_index IN
    /\ ~aborted
    /\ UNCHANGED project_file
    /\ IF idx < 0 \/ idx >= Len(video_segments)
       THEN /\ UNCHANGED <<undo_stack, redo_stack, video_segments>>
            /\ NoteOther
       ELSE /\ undo_stack' = save_state(undo_stack, video_segments,
                                        text_overlays)
            /\ redo_stack' = <<>>
            /\ video_segments' =
                 [video_segments EXCEPT ![idx + 1].volume = volume]
            /\ UNCHANGED text_overlays
            /\ NoteMutation
    /\ UNCHANGED <<current_video_path, text_overlays, clip_duration, in_time,
                   out_time, current_segment_index, timeline_list, text_list,
                   text_row, export_btn, aborted, threads>>

(***************************************************************************)
(* Text overlays.                                                          *)
(***************************************************************************)
\* text is the stripped content of text_input; the rest are the controls
add_text_overlay(text, duration, position_name, font_size, color, font) ==
    /\ ~aborted
    /\ UNCHANGED project_file
    /\ IF text = ""
       THEN /\ UNCHANGED <<undo_stack, redo_stack, text_overlays, text_list>>
            /\ NoteOther
       ELSE /\ undo_stack' = save_state(undo_stack, video_segments,
                                        text_overlays)
            /\ redo_stack' = <<>>
            /\ text_overlays' =
                 Append(text_overlays,
                        TextOverlay(text, in_time, duration,
                                    position_map(position_name), font_size,
                                    color, font))
            /\ text_list' = text_list + 1
            /\ UNCHANGED video_segments
            /\ NoteMutation
    /\ UNCHANGED <<current_video_path, video_segments, clip_duration, in_time,
                   out_time, current_segment_index, timeline_list, text_row,
                   export_btn, aborted, threads>>

\* the user selects row `row` of the overlay list widget
select_text_row(row) ==
    /\ ~aborted
    /\ UNCHANGED project_file
    /\ row \in 0..(text_list - 1)
    /\ text_row' = row
    /\ UNCHANGED <<current_video_path, video_segments, text_overlays,
                   undo_stack, redo_stack, clip_duration, in_time, out_time,
                   current_segment_index, timeline_list, text_list,
                   export_btn, aborted, threads>>
    /\ NoteView

\* with a row past the end of text_overlays, del raises IndexError after
\* save_state; takeItem leaves the next row current, or the last one
remove_text_overlay ==
    LET current_row == text_row IN
    /\ ~aborted
    /\ UNCHANGED project_file
    /\ IF current_row >= 0
       THEN /\ undo_stack' = save_state(undo_stack, video_segments,
                                        text_overlays)
            /\ redo_stack' = <<>>
            /\ IF current_row < Len(text_overlays)
               THEN /\ text_overlays' = RemoveAt(text_overlays, current_row + 1)
                    /\ text_list' = text_list - 1
                    /\ text_row' = IF current_row < text_list - 1
                                   THEN current_row ELSE current_row - 1
                    /\ UNCHANGED <<aborted, video_segments>>
                    /\ NoteMutation
               ELSE /\ aborted' = TRUE
                    /\ UNCHANGED <<text_overlays, text_list, text_row>>
                    /\ NoteOther
       ELSE /\ UNCHANGED <<undo_stack, redo_stack, text_overlays, text_list,
                           text_row, aborted>>
            /\ NoteOther
    /\ UNCHANGED <<current_video_path, video_segments, clip_duration, in_time,
                   out_time, current_segment_index, timeline_list, export_btn,
                   threads>>

(***************************************************************************)
(* Undo and redo.                                                          *)
(***************************************************************************)
\* undo dropping the current state instead of pushing it onto redo_stack
undo_without_redo ==
    /\ ~aborted
    /\ UNCHANGED project_file
    /\ IF undo_stack = <<>>
       THEN /\ UNCHANGED <<video_segments, text_overlays, undo_stack,
                           redo_stack, timeline_list, text_list, text_row>>
            /\ NoteOther
       ELSE /\ redo_stack' = redo_stack
            /\ undo_stack' = SubSeq(undo_stack, 1, Len(undo_stack) - 1)
            /\ restore_state(undo_stack[Len(undo_stack)])
            /\ NoteUndo
    /\ UNCHANGED <<current_video_path, clip_duration, in_time, out_time,
                   current_segment_index, export_btn, aborted, threads>>

undo ==
    /\ ~aborted
    /\ UNCHANGED project_file
    /\ IF undo_stack = <<>>
       THEN /\ UNCHANGED <<video_segments, text_overlays, undo_stack,
                           redo_stack, timeline_list, text_list, text_row>>
            /\ NoteOther
       ELSE /\ redo_stack' =
                 Append(redo_stack,
                        json_dumps(state_dict(video_segments, text_overlays)))
            /\ undo_stack' = SubSeq(undo_stack, 1, Len(undo_stack) - 1)
            /\ restore_state(undo_stack[Len(undo_stack)])
            /\ NoteUndo
    /\ UNCHANGED <<current_video_path, clip_duration, in_time, out_time,
                   current_segment_index, export_btn, aborted, threads>>

redo ==
    /\ ~aborted
    /\ UNCHANGED project_file
    /\ IF redo_stack = <<>>
       THEN /\ UNCHANGED <<video_segments, text_overlays, undo_stack,
                           redo_stack, timeline_list, text_list, text_row>>
            /\ NoteOther
       ELSE /\ undo_stack' =
                 Append(undo_stack,
                        json_dumps(state_dict(video_segments, text_overlays)))
            /\ redo_stack' = SubSeq(redo_stack, 1, Len(redo_stack) - 1)
            /\ restore_state(redo_stack[Len(redo_stack)])
            /\ NoteRedo
    /\ UNCHANGED <<current_video_path, clip_duration, in_time, out_time,
                   current_segment_index, export_btn, aborted, threads>>

(***************************************************************************)
(* Project files.                                                          *)
(***************************************************************************)
\* A project file is [kind, segments, text_overlays]: kind "cancel" is the
\* cancelled dialog, "unreadable" a file open() fails on, "malformed" one
\* json.load fails on, "nondict" JSON that is no object, "object" a JSON
\* object. Its records are [ok, data]: ok is whether VideoSegment(**data) or
\* TextOverlay(**data) accepts the record's keys.
ok_prefix(records) ==
    LET bad == {k \in DOMAIN records : ~records[k].ok} IN
    IF bad = {} THEN Len(records)
    ELSE (CHOOSE k \in bad : \A j \in bad : k <= j) - 1

record_data(records, n) == [k \in 1..n |-> records[k].data]

\* chosen is whether the dialog returned a path, writable whether open()
\* and json.dump succeed; the file holds every to_dict() as json.dump
\* writes it
save_project(chosen, writable) ==
    /\ ~aborted
    /\ project_file' =
         IF chosen /\ writable
         THEN LET doc == json_dumps(state_dict(video_segments, text_overlays))
              IN  [kind |-> "object",
                   segments |-> [k \in DOMAIN doc.segments |->
                                   [ok |-> TRUE, data |-> doc.segments[k]]],
                   text_overlays |-> [k \in DOMAIN doc.text_overlays |->
                                   [ok |-> TRUE, data |-> doc.text_overlays[k]]]]
         ELSE project_file
    /\ UNCHANGED <<current_video_path, video_segments, text_overlays,
                   undo_stack, redo_stack, clip_duration, in_time, out_time,
                   current_segment_index, timeline_list, text_list, text_row,
                   export_btn, aborted, threads>>
    /\ IF chosen /\ writable THEN NoteSave ELSE NoteOther

\* load_project starting a new history: both stacks emptied
load_project_new_history(file) ==
    /\ ~aborted
    /\ UNCHANGED project_file
    /\ IF file.kind \in {"cancel", "unreadable", "malformed"}
       THEN UNCHANGED <<video_segments, text_overlays, timeline_list,
                        text_list, text_row>>
       ELSE IF file.kind = "nondict"
       THEN /\ video_segments' = <<>>
            /\ text_overlays' = <<>>
            /\ UNCHANGED <<timeline_list, text_list, text_row>>
       ELSE LET nseg == ok_prefix(file.segments)
                nov == ok_prefix(file.text_overlays)
                state == json_loads(
                           [segments |-> record_data(file.segments, nseg),
                            text_overlays |->
                               IF nseg = Len(file.segments)
                               THEN record_data(file.text_overlays, nov)
                               ELSE <<>>])
                complete == /\ nseg = Len(file.segments)
                            /\ nov = Len(file.text_overlays)
            IN  /\ video_segments' = load_segments(state)
                /\ text_overlays' = load_overlays(state)
                /\ IF complete
                   THEN /\ timeline_list' = Len(video_segments')
                        /\ text_list' = Len(text_overlays')
                        /\ text_row' = -1
                   ELSE UNCHANGED <<timeline_list, text_list, text_row>>
    /\ undo_stack' = <<>>
    /\ redo_stack' = <<>>
    /\ UNCHANGED <<current_video_path, clip_duration, in_time, out_time,
                   current_segment_index, export_btn, aborted, threads>>
    /\ NoteLoad(file)

load_project(file) ==
    /\ ~aborted
    /\ UNCHANGED project_file
    /\ IF file.kind \in {"cancel", "unreadable", "malformed"}
       THEN UNCHANGED <<video_segments, text_overlays, timeline_list,
                        text_list, text_row>>
       ELSE IF file.kind = "nondict"
       THEN /\ video_segments' = <<>>
            /\ text_overlays' = <<>>
            /\ UNCHANGED <<timeline_list, text_list, text_row>>
       ELSE LET nseg == ok_prefix(file.segments)
                nov == ok_prefix(file.text_overlays)
                state == json_loads(
                           [segments |-> record_data(file.segments, nseg),
                            text_overlays |->
                               IF nseg = Len(file.segments)
                               THEN record_data(file.text_overlays, nov)
                               ELSE <<>>])
                complete == /\ nseg = Len(file.segments)
                            /\ nov = Len(file.text_overlays)
            IN  /\ video_segments' = load_segments(state)
                /\ text_overlays' = load_overlays(state)
                /\ IF complete
                   THEN /\ timeline_list' = Len(video_segments')
                        /\ text_list' = Len(text_overlays')
                        /\ text_row' = -1
                   ELSE UNCHANGED <<timeline_list, text_list, text_row>>
    /\ UNCHANGED <<current_video_path, undo_stack, redo_stack, clip_duration,
                   in_time, out_time, current_segment_index, export_btn,
                   aborted, threads>>
    /\ NoteLoad(file)

(***************************************************************************)
(* ExportThread. A thread holds self.segments and self.text_overlays, the  *)
(* very list objects of the window: it reads video_segments and            *)
(* text_overlays as they are when it runs a step.                          *)
(***************************************************************************)
\* the engine calls run() makes for one segment, in order
engine_ops(seg, has_audio) ==
    LET effect_op(e) ==
            CASE e.type = "brightness" -> <<[op |-> "colorx", arg |-> e.value]>>
              [] e.type = "rotate" -> <<[op |-> "rotate", arg |-> e.value]>>
              [] e.type = "mirror_x" -> <<[op |-> "mirror_x", arg |-> 0]>>
              [] e.type = "mirror_y" -> <<[op |-> "mirror_y", arg |-> 0]>>
              [] e.type = "blackwhite" -> <<[op |-> "blackwhite", arg |-> 0]>>
              [] OTHER -> <<>>
        effect_ops[k \in 0..Len(seg.effects)] ==
            IF k = 0 THEN <<>>
            ELSE effect_ops[k - 1] \o effect_op(seg.effects[k])
    IN  <<[op |-> "subclip", arg |-> <<seg.start_time, seg.end_time>>]>>
        \o (IF seg.speed # UnitSpeed
            THEN <<[op |-> "speedx", arg |-> seg.speed]>> ELSE <<>>)
        \o effect_ops[Len(seg.effects)]
        \o (IF has_audio /\ seg.volume # UnitPercent
            THEN <<[op |-> "volumex", arg |-> seg.volume]>> ELSE <<>>)

\* the signals a thread emits, in order: progress(value) and
\* finished(success, message)
Progress(value) ==
    [signal |-> "progress", value |-> value, success |-> FALSE,
     message |-> ""]

Finished(success, message) ==
    [signal |-> "finished", value |-> 0, success |-> success,
     message |-> message]

\* start_segments and start_overlays record the timeline at the start,
\* serial counts the threads started, raised is the text of the exception
\* run() caught
ExportThread(segments, overlays, output_path, serial) ==
    [pc |-> "loop", i |-> 0, clips |-> <<>>, overlays |-> <<>>,
     emitted |-> <<>>, handled |-> FALSE, opened |-> 0, closed |-> 0,
     output_path |-> output_path, start_segments |-> segments,
     start_overlays |-> overlays, serial |-> serial, raised |-> ""]

\* a thread object lives while it runs or its finished signal is queued;
\* self.export_thread = ExportThread(...) drops the window's reference to
\* the thread before
Alive(th) == th.pc # "done" \/ ~th.handled

Started == IF threads = <<>> THEN 0 ELSE threads[Len(threads)].serial

\* export_video with the button left enabled
export_video_button_stays(output_path) ==
    /\ ~aborted
    /\ UNCHANGED project_file
    /\ IF video_segments = <<>> \/ output_path = None
       THEN UNCHANGED <<export_btn, threads>>
       ELSE /\ export_btn' = export_btn
            /\ threads' = Append(SelectSeq(threads, Alive),
                                 ExportThread(video_segments, text_overlays,
                                              output_path, Started + 1))
    /\ UNCHANGED <<current_video_path, video_segments, text_overlays,
                   undo_stack, redo_stack, clip_duration, in_time, out_time,
                   current_segment_index, timeline_list, text_list, text_row,
                   aborted>>
    /\ NoteView

\* export_video without the test for an empty timeline
export_video_unchecked(output_path) ==
    /\ ~aborted
    /\ UNCHANGED project_file
    /\ IF output_path = None
       THEN UNCHANGED <<export_btn, threads>>
       ELSE /\ export_btn' = FALSE
            /\ threads' = Append(SelectSeq(threads, Alive),
                                 ExportThread(video_segments, text_overlays,
                                              output_path, Started + 1))
    /\ UNCHANGED <<current_video_path, video_segments, text_overlays,
                   undo_stack, redo_stack, clip_duration, in_time, out_time,
                   current_segment_index, timeline_list, text_list, text_row,
                   aborted>>
    /\ NoteView

\* output_path = None is the cancelled dialog
export_video(output_path) ==
    /\ ~aborted
    /\ UNCHANGED project_file
    /\ IF video_segments = <<>> \/ output_path = None
       THEN UNCHANGED <<export_btn, threads>>
       ELSE /\ export_btn' = FALSE
            /\ threads' = Append(SelectSeq(threads, Alive),
                                 ExportThread(video_segments, text_overlays,
                                              output_path, Started + 1))
    /\ UNCHANGED <<current_video_path, video_segments, text_overlays,
                   undo_stack, redo_stack, clip_duration, in_time, out_time,
                   current_segment_index, timeline_list, text_list, text_row,
                   aborted>>
    /\ NoteView

\* a click on the export button: a disabled button emits no clicked signal
export_btn_clicked(output_path) ==
    IF export_btn
    THEN export_video(output_path)
    ELSE ~aborted /\ UNCHANGED <<ui, threads>> /\ NoteView

\* an except clause that swallows the exception: run() returns, no signal
Raise_unreported(th, message) ==
    [th EXCEPT !.raised = message, !.pc = "done"]

\* the except clause: self.finished.emit(False, str(e)), and run() returns
Raise(th, message) ==
    [th EXCEPT !.raised = message,
               !.emitted = Append(@, Finished(FALSE, message)),
               !.pc = "done"]

\* one pass of the loop over self.segments up to clips.append(clip); fail is
\* "none", "extract" (VideoFileClip or subclip raised) or "transform" (a
\* later engine call on the opened clip raised), message the error's text
run_segment(t, has_audio, fail, message) ==
    LET th == threads[t] IN
    /\ th.pc = "loop"
    /\ IF th.i < Len(video_segments)
       THEN LET seg == video_segments[th.i + 1]
                ops == engine_ops(seg, has_audio)
            IN  CASE fail = "none" ->
                       threads' = [threads EXCEPT ![t] =
                          [th EXCEPT !.clips = Append(@, [source |-> seg,
                                                          ops |-> ops]),
                                     !.opened = @ + 1,
                                     !.pc = "emit"]]
                  [] fail = "extract" ->
                       threads' = [threads EXCEPT ![t] = Raise(th, message)]
                  [] fail = "transform" ->
                       /\ Len(ops) > 1
                       /\ threads' = [threads EXCEPT ![t] =
                            Raise([th EXCEPT !.opened = @ + 1], message)]
       ELSE /\ fail = "none"
            /\ threads' = [threads EXCEPT ![t].pc = "concat"]
    /\ UNCHANGED <<ui, ghost>>

\* self.progress.emit(int((i + 1) / len(self.segments) * 50)); the integer
\* quotient below is the value of the floating-point expression for every
\* length under 50 (the two first differ at 29 of 50, where the float
\* product is 28.999999999999996 and int() gives 28)
run_progress(t) ==
    LET th == threads[t] IN
    /\ th.pc = "emit"
    /\ IF Len(video_segments) = 0
       THEN threads' = [threads EXCEPT ![t] = Raise(th, "division by zero")]
       ELSE threads' = [threads EXCEPT ![t] =
               [th EXCEPT !.emitted =
                             Append(@, Progress(((th.i + 1) * SegmentShare)
                                                  \div Len(video_segments))),
                          !.i = @ + 1,
                          !.pc = "loop"]]
    /\ UNCHANGED <<ui, ghost>>

\* concatenation and the overlay pass; fail is "none", "concat" or "overlay"
run_concat(t, fail, message) ==
    LET th == threads[t] IN
    /\ th.pc = "concat"
    /\ IF th.clips # <<>>
       THEN CASE fail = "none" ->
                   threads' = [threads EXCEPT ![t] =
                      [th EXCEPT !.overlays = text_overlays,
                                 !.opened = @ + 1,
                                 !.emitted = Append(@, Progress(ConcatProgress)),
                                 !.pc = "write"]]
              [] fail = "concat" ->
                   threads' = [threads EXCEPT ![t] = Raise(th, message)]
              [] fail = "overlay" ->
                   /\ text_overlays # <<>>
                   /\ threads' = [threads EXCEPT ![t] =
                        Raise([th EXCEPT !.opened = @ + 1], message)]
       ELSE /\ fail = "none"
            /\ threads' = [threads EXCEPT ![t] =
                 [th EXCEPT !.emitted =
                               Append(@, Finished(FALSE, "No clips to export")),
                            !.pc = "done"]]
    /\ UNCHANGED <<ui, ghost>>

\* write_videofile, the cleanup and the last two signals
run_write(t, fails, message) ==
    LET th == threads[t] IN
    /\ th.pc = "write"
    /\ IF fails
       THEN threads' = [threads EXCEPT ![t] = Raise(th, message)]
       ELSE threads' = [threads EXCEPT ![t] =
               [th EXCEPT !.closed = Len(th.clips) + 1,
                          !.emitted = @ \o <<Progress(DoneProgress),
                                             Finished(TRUE, th.output_path)>>,
                          !.pc = "done"]]
    /\ UNCHANGED <<ui, ghost>>

\* the queued finished signal of thread t reaches the window
on_export_finished(t) ==
    LET th == threads[t] IN
    /\ ~aborted
    /\ UNCHANGED project_file
    /\ \E k \in DOMAIN th.emitted : th.emitted[k].signal = "finished"
    /\ ~th.handled
    /\ export_btn' = TRUE
    /\ threads' = [threads EXCEPT ![t].handled = TRUE]
    /\ UNCHANGED <<current_video_path, video_segments, text_overlays,
                   undo_stack, redo_stack, clip_duration, in_time, out_time,
                   current_segment_index, timeline_list, text_list, text_row,
                   aborted>>
    /\ NoteView

(***************************************************************************)
(* The initial state and the inputs.                                       *)
(***************************************************************************)
Constructed ==
    /\ current_video_path = None
    /\ video_segments = <<>>
    /\ text_overlays = <<>>
    /\ undo_stack = <<>>
    /\ redo_stack = <<>>
    /\ clip_duration = 0
    /\ in_time = 0
    /\ out_time = 0
    /\ current_segment_index = -1
    /\ timeline_list = 0
    /\ text_list = 0
    /\ text_row = -1
    /\ export_btn = TRUE
    /\ threads = <<>>
    /\ aborted = FALSE
    /\ project_file = NoFile

\* the state after VideoEditorPro.__init__, with the history variables
\* recording
Init ==
    /\ Constructed
    /\ phase = "other"
    /\ pre_tl = NoTimeline
    /\ post_tl = NoTimeline
    /\ run = NoRun

\* the same state, with the history variables recording nothing
InitUnobserved ==
    /\ Constructed
    /\ phase = "unobserved"
    /\ pre_tl = NoTimeline
    /\ post_tl = NoTimeline
    /\ run = RunOff

\* self.player.position(): 0 while the player has no source
PlayerPositions == IF current_video_path = None THEN {0} ELSE 0..MaxPos

Controls(brightness, rotation, speed, blackwhite) ==
    [brightness |-> brightness, contrast |-> UnitPercent,
     rotation |-> rotation, speed |-> speed, blackwhite |-> blackwhite,
     mirror_x |-> FALSE, mirror_y |-> FALSE]

FileSegment ==
    [ok |-> TRUE,
     data |-> segment_to_dict(VideoSegment("a.mp4", 0, MaxPos, MaxPos, <<>>,
                                           UnitPercent, UnitSpeed))]

FileOverlay ==
    [ok |-> TRUE,
     data |-> [overlay_to_dict(TextOverlay("hi", 0, DefaultTextDuration,
                                           Tuple("center", "top"),
                                           DefaultFontSize, "white", "Arial"))
                 EXCEPT !.position = json_dumps_value(@)]]

BadRecord(r) == [r EXCEPT !.ok = FALSE]

File(kind, segments, overlays) ==
    [kind |-> kind, segments |-> segments, text_overlays |-> overlays]

ProjectFiles ==
    {File("cancel", <<>>, <<>>), File("unreadable", <<>>, <<>>),
     File("malformed", <<>>, <<>>), File("nondict", <<>>, <<>>),
     File("object", <<FileSegment>>, <<FileOverlay>>),
     File("object", <<FileSegment, BadRecord(FileSegment)>>, <<>>),
     File("object", <<FileSegment>>, <<BadRecord(FileOverlay)>>)}

(***************************************************************************)
(* Spec: the timeline, its history and the project loader.                 *)
(***************************************************************************)
CanPush == Len(undo_stack) < MaxDepth

Next ==
    \/ open_video("a.mp4", TRUE, MaxPos)
    \/ CanPush /\ Len(video_segments) < MaxSegs /\ add_segment_to_timeline
    \/ \E row \in 0..(MaxSegs - 1) : on_timeline_item_clicked(row)
    \/ CanPush /\ move_segment_up
    \/ CanPush /\ move_segment_down
    \/ CanPush /\ remove_segment
    \/ \E yes \in BOOLEAN : CanPush /\ clear_timeline(yes)
    \/ \E c \in {Controls(UnitPercent + 20, 0, UnitSpeed, TRUE)} :
          CanPush /\ apply_effects(c)
    \/ \E v \in {UnitPercent \div 2} : CanPush /\ apply_volume(v)
    \/ \E text \in {"", "hi"}, pos \in {"top"} :
          /\ CanPush
          /\ Len(text_overlays) < MaxOverlays
          /\ add_text_overlay(text, DefaultTextDuration, pos, DefaultFontSize,
                              "white", "Arial")
    \/ \E row \in 0..(MaxOverlays - 1) : select_text_row(row)
    \/ CanPush /\ remove_text_overlay
    \/ undo
    \/ redo
    \/ \E file \in ProjectFiles : load_project(file)

Spec == Init /\ [][Next]_vars

(***************************************************************************)
(* SpecRange: the in/out range against the loaded source.                  *)
(***************************************************************************)
NextRange ==
    \/ \E path \in {None, "a.mp4"}, readable \in BOOLEAN, dur \in 1..MaxPos :
          open_video(path, readable, dur)
    \/ \E dur \in 0..MaxPos : on_duration_changed(dur)
    \/ \E pos_ms \in PlayerPositions : set_in_point(pos_ms)
    \/ \E pos_ms \in PlayerPositions : set_out_point(pos_ms)
    \/ Len(video_segments) < MaxRangeSegs /\ add_segment_to_timeline
    \/ undo
    \/ redo

SpecRange == Init /\ [][NextRange]_vars

(***************************************************************************)
(* SpecHistory: one segment whose volume is raised step by step, with      *)
(* undo, redo and load_project, long enough to fill the stacks.            *)
(***************************************************************************)
NextVolume ==
    IF video_segments = <<>> THEN UnitPercent
    ELSE video_segments[1].volume + 1

\* the project files that hold no overlay record
HistoryFiles == {file \in ProjectFiles : file.text_overlays = <<>>}

NextHistory ==
    \/ open_video("a.mp4", TRUE, MaxPos)
    \/ video_segments = <<>> /\ add_segment_to_timeline
    \/ on_timeline_item_clicked(0)
    \/ NextVolume <= UnitPercent + MaxChain /\ apply_volume(NextVolume)
    \/ undo
    \/ redo
    \/ \E file \in HistoryFiles :
          /\ Len(undo_stack) = HistoryLimit
          /\ NextVolume > UnitPercent + MaxChain
          /\ load_project(file)

SpecHistory == Init /\ [][NextHistory]_vars

(***************************************************************************)
(* SpecExport: export threads running beside the window's handlers.        *)
(***************************************************************************)
CanEdit == Len(undo_stack) < MaxEdits

NextExport ==
    \/ open_video("a.mp4", TRUE, MaxPos)
    \/ CanEdit /\ Len(video_segments) < MaxSegs /\ add_segment_to_timeline
    \/ /\ CanEdit
       /\ Len(text_overlays) < MaxOverlays
       /\ add_text_overlay("hi", DefaultTextDuration, "center",
                           DefaultFontSize, "white", "Arial")
    \/ \E row \in 0..(MaxSegs - 1) : on_timeline_item_clicked(row)
    \/ CanEdit /\ remove_segment
    \/ CanEdit /\ clear_timeline(TRUE)
    \/ \E c \in {Controls(UnitPercent, 0, 2 * UnitSpeed, FALSE)} :
          CanEdit /\ apply_effects(c)
    \/ \E output_path \in {None, "out.mp4"} :
          Started < MaxThreads /\ export_btn_clicked(output_path)
    \/ \E t \in DOMAIN threads, fail \in {"none", "extract", "transform"} :
          run_segment(t, TRUE, fail, "engine error")
    \/ \E t \in DOMAIN threads : run_progress(t)
    \/ \E t \in DOMAIN threads, fail \in {"none", "concat", "overlay"} :
          run_concat(t, fail, "engine error")
    \/ \E t \in DOMAIN threads, fails \in BOOLEAN :
          run_write(t, fails, "engine error")
    \/ \E t \in DOMAIN threads : on_export_finished(t)

SpecExport == InitUnobserved /\ [][NextExport]_vars

(***************************************************************************)
(* SpecExportFair: SpecExport with the scheduling the program runs under:  *)
(* QThread.start() gives run() a thread of its own that the operating      *)
(* system keeps scheduling, every engine call returns or raises, and the   *)
(* window's event loop delivers every queued finished signal.              *)
(***************************************************************************)
\* one step of run() in thread t, whatever the engine answers
run_step(t) ==
    /\ t \in DOMAIN threads
    /\ \/ \E fail \in {"none", "extract", "transform"} :
             run_segment(t, TRUE, fail, "engine error")
       \/ run_progress(t)
       \/ \E fail \in {"none", "concat", "overlay"} :
             run_concat(t, fail, "engine error")
       \/ \E fails \in BOOLEAN : run_write(t, fails, "engine error")

\* the handlers that start a job or change the lists a running job reads
NextJobs ==
    \/ open_video("a.mp4", TRUE, MaxPos)
    \/ CanEdit /\ Len(video_segments) < MaxSegs /\ add_segment_to_timeline
    \/ /\ CanEdit
       /\ Len(text_overlays) < MaxOverlays
       /\ add_text_overlay("hi", DefaultTextDuration, "center",
                           DefaultFontSize, "white", "Arial")
    \/ on_timeline_item_clicked(0)
    \/ CanEdit /\ clear_timeline(TRUE)
    \/ \E c \in {Controls(UnitPercent, 0, 2 * UnitSpeed, FALSE)} :
          CanEdit /\ apply_effects(c)
    \/ \E output_path \in {None, "out.mp4"} :
          Started < MaxThreads /\ export_btn_clicked(output_path)
    \/ \E t \in DOMAIN threads : run_step(t)
    \/ \E t \in DOMAIN threads : on_export_finished(t)

SpecExportFair ==
    /\ InitUnobserved
    /\ [][NextJobs]_vars
    /\ \A t \in 1..MaxThreads :
          /\ WF_vars(run_step(t))
          /\ WF_vars(t \in DOMAIN threads /\ on_export_finished(t))

(***************************************************************************)
(* SpecSegments: segments cut from any range, under every timeline         *)
(* operation and undo/redo.                                                *)
(***************************************************************************)
\* the player positions at which the range is set here
CutPositions == PlayerPositions \cap {0, 1, MaxPos}

NextSegments ==
    \/ \E readable \in BOOLEAN : open_video("a.mp4", readable, MaxPos)
    \/ \E pos_ms \in CutPositions : set_in_point(pos_ms)
    \/ \E pos_ms \in CutPositions : set_out_point(pos_ms)
    \/ CanEdit /\ Len(video_segments) < MaxSegs /\ add_segment_to_timeline
    \/ \E row \in 0..(MaxSegs - 1) : on_timeline_item_clicked(row)
    \/ CanEdit /\ move_segment_up
    \/ CanEdit /\ move_segment_down
    \/ CanEdit /\ remove_segment
    \/ CanEdit /\ clear_timeline(TRUE)
    \/ \E c \in {Controls(UnitPercent + 20, 0, UnitSpeed, TRUE)} :
          CanEdit /\ apply_effects(c)
    \/ \E v \in {UnitPercent \div 2} : CanEdit /\ apply_volume(v)
    \/ undo
    \/ redo

SpecSegments == InitUnobserved /\ [][NextSegments]_vars

(***************************************************************************)
(* SpecProject: a timeline saved to a project file and loaded back.        *)
(***************************************************************************)
NextProject ==
    \/ open_video("a.mp4", TRUE, MaxPos)
    \/ CanPush /\ Len(video_segments) < MaxSegs /\ add_segment_to_timeline
    \/ \E row \in 0..(MaxSegs - 1) : on_timeline_item_clicked(row)
    \/ \E c \in {Controls(UnitPercent + 20, 0, UnitSpeed, TRUE)} :
          CanPush /\ apply_effects(c)
    \/ \E pos \in {"center", "top"} :
          /\ CanPush
          /\ Len(text_overlays) < MaxOverlays
          /\ add_text_overlay("hi", DefaultTextDuration, pos, DefaultFontSize,
                              "white", "Arial")
    \/ CanPush /\ clear_timeline(TRUE)
    \/ undo
    \/ \E chosen \in BOOLEAN, writable \in BOOLEAN :
          save_project(chosen, writable)
    \/ \E file \in {File("cancel", <<>>, <<>>), project_file} :
          file # NoFile /\ load_project(file)

SpecProject == Init /\ [][NextProject]_vars

(***************************************************************************)
(* SpecEffects: the effect controls applied again and again.               *)
(***************************************************************************)
\* settings of the effect controls: the defaults, a filter with brightness,
\* a rotation at double speed
ControlSettings ==
    {Controls(UnitPercent, 0, UnitSpeed, FALSE),
     Controls(UnitPercent + 20, 0, UnitSpeed, TRUE),
     Controls(UnitPercent, 90, 2 * UnitSpeed, FALSE)}

NextEffects ==
    \/ open_video("a.mp4", TRUE, MaxPos)
    \/ CanEdit /\ Len(video_segments) < MaxSegs /\ add_segment_to_timeline
    \/ \E row \in 0..(MaxSegs - 1) : on_timeline_item_clicked(row)
    \/ \E c \in ControlSettings : CanEdit /\ apply_effects(c)
    \/ undo
    \/ redo

SpecEffects == Init /\ [][NextEffects]_vars

(***************************************************************************)
(* SpecMutations: every timeline operation, with undo and redo.            *)
(***************************************************************************)
NextMutations ==
    \/ open_video("a.mp4", TRUE, MaxPos)
    \/ CanEdit /\ Len(video_segments) < MaxSegs /\ add_segment_to_timeline
    \/ \E row \in 0..(MaxSegs - 1) : on_timeline_item_clicked(row)
    \/ CanEdit /\ move_segment_up
    \/ CanEdit /\ move_segment_down
    \/ CanEdit /\ remove_segment
    \/ \E yes \in BOOLEAN : CanEdit /\ clear_timeline(yes)
    \/ \E c \in {Controls(UnitPercent + 20, 0, UnitSpeed, TRUE)} :
          CanEdit /\ apply_effects(c)
    \/ \E v \in {UnitPercent \div 2} : CanEdit /\ apply_volume(v)
    \/ \E text \in {"", "hi"}, pos \in {"top"} :
          /\ CanEdit
          /\ Len(text_overlays) < MaxOverlays
          /\ add_text_overlay(text, DefaultTextDuration, pos, DefaultFontSize,
                              "white", "Arial")
    \/ \E row \in 0..(MaxOverlays - 1) : select_text_row(row)
    \/ CanEdit /\ remove_text_overlay
    \/ undo
    \/ redo

SpecMutations == Init /\ [][NextMutations]_vars

(***************************************************************************)
(* Properties.                                                             *)
(***************************************************************************)
\* C1: an undo() immediately after a successful mutation leaves
\* (video_segments, text_overlays) equal to their values before the mutation,
\* and a redo() immediately after that undo leaves them equal to their values
\* after the mutation.
C1_UndoRedoRestoreExactly ==
    /\ phase = "undone" => Timeline = pre_tl
    /\ phase = "redone" => Timeline = post_tl

\* C2: neither history stack ever holds more than 50 snapshots.
C2_StacksBounded ==
    /\ Len(undo_stack) <= HistoryLimit
    /\ Len(redo_stack) <= HistoryLimit

\* C2 witness: a redo() has just pushed the 50th snapshot onto undo_stack.
C2_RedoFillsStack == Len(undo_stack) = HistoryLimit /\ phase = "redone"

\* C3: a mutation's save_state() on a full undo_stack drops the bottom
\* snapshot, keeps the other 49 in order and puts the snapshot of the current
\* timeline on top; and 50 undos after 51 mutations end, with nothing left to
\* undo, in the timeline as it was after the first mutation, not before it.
C3_EvictsOldest ==
    /\ [](run.track = "undoing" /\ run.muts = HistoryLimit + 1
             /\ run.undos = HistoryLimit
          => /\ undo_stack = <<>>
             /\ Timeline = run.first_tl
             /\ Timeline # run.start_tl)
    /\ [][(Len(undo_stack) = HistoryLimit /\ phase' = "mutated"
             /\ UNCHANGED threads)
          => (undo_stack' =
                Append(Tail(undo_stack),
                       json_dumps(state_dict(video_segments, text_overlays))))
        ]_vars

\* C3 witness: 51 mutations, then 50 undos.
C3_FiftyUndosAfterFiftyOne ==
    /\ run.track = "undoing"
    /\ run.muts = HistoryLimit + 1
    /\ run.undos = HistoryLimit

Sources(th) == [k \in DOMAIN th.clips |-> th.clips[k].source]

Rendered(th) ==
    th.pc = "write" \/ \E k \in DOMAIN th.emitted : th.emitted[k].success

\* C4: whatever the window does while a thread runs, the thread processes
\* exactly the segments and overlays the timeline held when it was started.
C4_JobRendersStartTimeline ==
    \A t \in DOMAIN threads :
        LET th == threads[t] IN
        /\ Len(th.clips) <= Len(th.start_segments)
        /\ \A k \in DOMAIN th.clips : th.clips[k].source = th.start_segments[k]
        /\ Rendered(th) => /\ Sources(th) = th.start_segments
                           /\ th.overlays = th.start_overlays

\* C5: current_segment_index is -1 or an index into video_segments.
C5_SelectedIndexValid ==
    \/ current_segment_index = -1
    \/ 0 <= current_segment_index
         /\ current_segment_index < Len(video_segments)

\* C6: the range satisfies 0 <= in_time <= out_time <= clip_duration.
C6_RangeOrdered ==
    /\ 0 <= in_time
    /\ in_time <= out_time
    /\ out_time <= clip_duration

\* C7: a thread's progress values never decrease and lie in [0, 100], it
\* emits finished exactly once, and nothing after it.
C7_SignalsOrdered ==
    \A t \in DOMAIN threads :
        LET e == threads[t].emitted IN
        /\ \A k \in DOMAIN e :
              e[k].signal = "progress"
                 => e[k].value >= 0 /\ e[k].value <= DoneProgress
        /\ \A j, k \in DOMAIN e :
              (j < k /\ e[j].signal = "progress" /\ e[k].signal = "progress")
                 => e[j].value <= e[k].value
        /\ \A k \in DOMAIN e : e[k].signal = "finished" => k = Len(e)
        /\ threads[t].pc = "done"
              => e # <<>> /\ e[Len(e)].signal = "finished"

\* C8: a thread is started only when every thread before it has finished and
\* had its finished signal handled, so at most one is running.
C8_OneThreadAtATime ==
    \A t \in DOMAIN threads : t < Len(threads) => ~Alive(threads[t])

\* C8 witness: a second thread runs, the export button disabled.
C8_SecondThreadRuns ==
    /\ ~export_btn
    /\ \E t \in DOMAIN threads :
          threads[t].serial > 1 /\ threads[t].pc # "done"

\* C9: a thread whose run() caught an exception emits finished(False, text of
\* the exception) and has by then closed every clip it opened.
C9_FailureClosesClips ==
    \A t \in DOMAIN threads :
        LET th == threads[t] IN
        th.raised # ""
           => /\ th.emitted[Len(th.emitted)] = Finished(FALSE, th.raised)
              /\ th.closed = th.opened

LoadFails(file) ==
    \/ file.kind \in {"unreadable", "malformed", "nondict"}
    \/ /\ file.kind = "object"
       /\ \/ ok_prefix(file.segments) < Len(file.segments)
          \/ ok_prefix(file.text_overlays) < Len(file.text_overlays)

\* C10: a load_project() that fails leaves video_segments and text_overlays
\* as they were before the call.
C10_FailedLoadKeepsTimeline ==
    [][(\E file \in ProjectFiles : LoadFails(file) /\ load_project(file))
       => UNCHANGED <<video_segments, text_overlays>>]_vars

\* a step of one of the nine timeline operations, with any input
TimelineOperation ==
    \/ add_segment_to_timeline
    \/ move_segment_up
    \/ move_segment_down
    \/ remove_segment
    \/ \E yes \in BOOLEAN : clear_timeline(yes)
    \/ \E c \in {Controls(UnitPercent + 20, 0, UnitSpeed, TRUE)} :
          apply_effects(c)
    \/ \E v \in {UnitPercent \div 2} : apply_volume(v)
    \/ \E text \in {"", "hi"}, pos \in {"top"} :
          add_text_overlay(text, DefaultTextDuration, pos, DefaultFontSize,
                           "white", "Arial")
    \/ remove_text_overlay

\* C11: a timeline operation that does not complete its mutation (it is
\* rejected or a no-op) leaves video_segments, text_overlays, undo_stack and
\* redo_stack unchanged.
C11_RejectedLeavesAllUnchanged ==
    [][(TimelineOperation /\ phase' # "mutated")
       => UNCHANGED <<video_segments, text_overlays, undo_stack, redo_stack>>
      ]_vars

\* C12: every segment on the timeline satisfies 0 <= start_time < end_time
\* and duration = end_time - start_time.
C12_SegmentsWellFormed ==
    \A k \in DOMAIN video_segments :
        LET seg == video_segments[k] IN
        /\ 0 <= seg.start_time
        /\ seg.start_time < seg.end_time
        /\ seg.duration = seg.end_time - seg.start_time

\* C12 witness: an undo has restored a segment that starts after 0, beside
\* a segment cut from another range.
C12_CutRestored ==
    /\ redo_stack # <<>>
    /\ Len(video_segments) = 2
    /\ video_segments[1].start_time > 0
    /\ video_segments[2].start_time = 0

\* p clamped to [0, clip_duration]
ClampPosition(p) ==
    IF p < 0 THEN 0 ELSE IF p > clip_duration THEN clip_duration ELSE p

\* C13: set_out_point() at a position p < in_time, and set_in_point() at a
\* position p > out_time, both end with in_time = out_time = p, p clamped to
\* [0, clip_duration].
C13_SetterMovesOtherBound ==
    [][\A p \in PlayerPositions :
          /\ (p < in_time /\ set_out_point(p))
                => in_time' = ClampPosition(p) /\ out_time' = ClampPosition(p)
          /\ (p > out_time /\ set_in_point(p))
                => in_time' = ClampPosition(p) /\ out_time' = ClampPosition(p)
      ]_vars

\* C14: load_project() of the file save_project() has just written from a
\* timeline with at least one segment leaves video_segments and
\* text_overlays equal to the timeline saved.
C14_SaveLoadRoundTrip ==
    (phase = "loaded" /\ pre_tl[1] # <<>>) => Timeline = pre_tl

\* the selected segment holds exactly the effects and the speed of setting c
Applied(c) ==
    /\ 0 <= current_segment_index
    /\ current_segment_index < Len(video_segments)
    /\ LET seg == video_segments[current_segment_index + 1] IN
       /\ seg.effects = effects_of(c.brightness, c.contrast, c.rotation,
                                   c.blackwhite, c.mirror_x, c.mirror_y)
       /\ seg.speed = c.speed

\* C15: apply_effects() leaves the selected segment with exactly the effects
\* and speed of the controls, whatever it held before, so that a second call
\* with the same controls changes nothing on the timeline.
C15_ApplyEffectsReplaces ==
    [][\A c \in ControlSettings :
          (apply_effects(c) /\ phase' = "mutated")
             => /\ Applied(c)'
                /\ Applied(c) => video_segments' = video_segments
      ]_vars

\* C15 witness: apply_effects() has just run on a segment that already held
\* the effects of the same controls.
C15_AppliedTwice ==
    /\ phase = "mutated"
    /\ pre_tl = post_tl
    /\ \E c \in ControlSettings : Applied(c)
    /\ video_segments[current_segment_index + 1].effects # <<>>

\* the selection is the first segment, absent, or out of range
NothingAbove ==
    current_segment_index <= 0 \/ current_segment_index >= Len(video_segments)

\* the selection is the last segment, absent, or out of range
NothingBelow ==
    current_segment_index < 0
       \/ current_segment_index >= Len(video_segments) - 1

\* C16: move_segment_up() with the first segment selected, move_segment_down()
\* with the last segment selected, and either with no or an out-of-range
\* selection, leave video_segments, undo_stack and redo_stack unchanged.
C16_MoveAtEndIsNoOp ==
    [][((NothingAbove /\ move_segment_up)
          \/ (NothingBelow /\ move_segment_down))
       => UNCHANGED <<video_segments, undo_stack, redo_stack>>]_vars

\* C17: a click on the export button while video_segments is empty starts no
\* thread (so no engine call is made for it), and every thread was started
\* from a timeline with at least one segment.
C17_EmptyTimelineStartsNoJob ==
    /\ [](\A t \in DOMAIN threads : threads[t].start_segments # <<>>)
    /\ [][(video_segments = <<>>
             /\ \E output_path \in {None, "out.mp4"} :
                   export_btn_clicked(output_path))
          => UNCHANGED <<threads, export_btn>>]_vars

\* C17 witness: the timeline is empty and the export button enabled, after
\* an earlier job was started and handled.
C17_EmptyAfterJob ==
    /\ video_segments = <<>>
    /\ export_btn
    /\ Started < MaxThreads
    /\ threads # <<>>
    /\ \A t \in DOMAIN threads : threads[t].handled

\* segs and ovs are the timeline stored in snapshot state_json
Restored(segs, ovs, state_json) ==
    /\ segs = load_segments(json_loads(state_json))
    /\ ovs = load_overlays(json_loads(state_json))

\* C18: after an undo() or redo() that is not a no-op, video_segments and
\* text_overlays are exactly those of the snapshot restored, and
\* current_segment_index is -1.
C18_RestoreReplacesAndDeselects ==
    [][/\ (undo_stack # <<>> /\ undo)
             => /\ Restored(video_segments', text_overlays',
                            undo_stack[Len(undo_stack)])
                /\ current_segment_index' = -1
       /\ (redo_stack # <<>> /\ redo)
             => /\ Restored(video_segments', text_overlays',
                            redo_stack[Len(redo_stack)])
                /\ current_segment_index' = -1
      ]_vars

\* C19: right after a successful timeline mutation, redo_stack is empty and
\* the top of undo_stack is the snapshot of the timeline just before the
\* mutation.
C19_MutationRecordsPriorState ==
    phase = "mutated"
       => /\ redo_stack = <<>>
          /\ undo_stack # <<>>
          /\ undo_stack[Len(undo_stack)]
                = json_dumps(state_dict(pre_tl[1], pre_tl[2]))

\* C19 witness: a mutation of a timeline of two segments has just put a
\* third snapshot on undo_stack.
C19_ThirdMutation ==
    /\ phase = "mutated"
    /\ Len(pre_tl[1]) = 2
    /\ pre_tl # post_tl
    /\ Len(undo_stack) = 3

\* stack `new` holds entries of stack `old`, unchanged and in order, below at
\* most one pushed entry, which is the snapshot of the timeline as it is
\* when pushed
SnapshotsKept(old, new) ==
    LET below == SubSeq(new, 1, Len(new) - 1)
        pushed == new[Len(new)]
    IN  \/ new = old
        \/ new = <<>>
        \/ old # <<>> /\ new = SubSeq(old, 1, Len(old) - 1)
        \/ /\ new # <<>>
           /\ below = old \/ (old # <<>> /\ below = Tail(old))
           /\ pushed = json_dumps(state_dict(video_segments, text_overlays))

\* C20: no operation alters a snapshot stored on undo_stack or redo_stack: a
\* step only pushes the snapshot of the current timeline, pops the top,
\* evicts the bottom or clears the stack.
C20_SnapshotsImmutable ==
    [][/\ SnapshotsKept(undo_stack, undo_stack')
       /\ SnapshotsKept(redo_stack, redo_stack')]_vars

\* C20 witness: apply_effects() has refilled the effects list of a segment
\* while the snapshot taken before still shows the segment without effects,
\* above an older snapshot.
C20_SnapshotOutlivesRefill ==
    /\ phase = "mutated"
    /\ Len(undo_stack) >= 2
    /\ 0 <= current_segment_index
    /\ current_segment_index < Len(video_segments)
    /\ video_segments[current_segment_index + 1].effects # <<>>
    /\ LET top == undo_stack[Len(undo_stack)] IN
       /\ Len(top.segments) = Len(video_segments)
       /\ top.segments[current_segment_index + 1].effects = <<>>

\* C21: add_segment_to_timeline() is rejected when in_time >= out_time or
\* when the source has no known duration, and otherwise appends exactly one
\* segment (in_time, out_time, no effects, volume 1.0, speed 1.0) after the
\* segments already there.
C21_AddSegmentValidates ==
    [][add_segment_to_timeline
       => IF \/ current_video_path = None
             \/ in_time >= out_time
             \/ clip_duration = 0
          THEN UNCHANGED video_segments
          ELSE video_segments' =
                 Append(video_segments,
                        VideoSegment(current_video_path, in_time, out_time,
                                     out_time - in_time, <<>>, UnitPercent,
                                     UnitSpeed))
      ]_vars

(***************************************************************************)
(* SpecRemoval: segments of different ranges added, selected and removed,  *)
(* with undo and redo leaving a selection behind.                          *)
(***************************************************************************)
NextRemoval ==
    \/ open_video("a.mp4", TRUE, MaxPos)
    \/ \E pos_ms \in {0, 1} : set_in_point(pos_ms)
    \/ CanEdit /\ Len(video_segments) < MaxSegs /\ add_segment_to_timeline
    \/ \E row \in 0..(MaxSegs - 1) : on_timeline_item_clicked(row)
    \/ CanEdit /\ remove_segment
    \/ undo
    \/ redo

SpecRemoval == InitUnobserved /\ [][NextRemoval]_vars

C23_OpenResetsRange ==
    [][(\E readable \in BOOLEAN, dur \in 1..MaxPos :
           open_video("a.mp4", readable, dur))
       => in_time' = 0 /\ out_time' = clip_duration'
      ]_vars


\* C24: every started export job eventually emits its finished signal,
\* success or failure, when the thread keeps being scheduled and every
\* engine call returns or raises; the handler of that signal enables the
\* export button again, and the button does become enabled after every job.
C24_JobFinishes ==
    /\ \A s \in 1..MaxThreads :
          (\E t \in DOMAIN threads : threads[t].serial = s)
          ~> (\E t \in DOMAIN threads :
                 /\ threads[t].serial = s
                 /\ \E k \in DOMAIN threads[t].emitted :
                       threads[t].emitted[k].signal = "finished")
    /\ [][\A t \in DOMAIN threads : on_export_finished(t) => export_btn']_vars
    /\ (~export_btn) ~> export_btn

\* C24 witness: a job that failed has had its finished signal handled and
\* the button is enabled again.
C24_FailedJobHandled ==
    /\ export_btn
    /\ \E t \in DOMAIN threads :
          /\ threads[t].raised # ""
          /\ threads[t].handled


\* C25: a job over n >= 1 segments emits floor(50*i/n) after its i-th
\* segment, hence values in (0, 50] ending with 50, then 60 after
\* concatenation and overlays, then 100 after the encode and before
\* finished(True, output_path): its progress values are a prefix of that
\* list, and 100 is followed by the successful finished signal.
C25_ProgressValues ==
    \A t \in DOMAIN threads :
        LET th == threads[t]
            n == Len(th.start_segments)
            IsProgress(s) == s.signal = "progress"
            ps == SelectSeq(th.emitted, IsProgress)
        IN  /\ Len(ps) <= n + 2
            /\ \A k \in DOMAIN ps :
                  ps[k].value =
                     IF k <= n THEN (SegmentShare * k) \div n
                     ELSE IF k = n + 1 THEN ConcatProgress
                     ELSE DoneProgress
            /\ \A k \in DOMAIN th.emitted :
                  th.emitted[k] = Progress(DoneProgress)
                     => /\ k < Len(th.emitted)
                        /\ th.emitted[k + 1] = Finished(TRUE, th.output_path)


(***************************************************************************)
(* SpecEngine: jobs over a timeline nobody edits while a job runs (every   *)
(* edit waits for the export button to be enabled again), with every       *)
(* effect control in use.                                                  *)
(***************************************************************************)
\* settings of the effect controls: brightness and contrast under a filter,
\* a mirrored rotation at double speed
EngineSettings ==
    {[Controls(UnitPercent + 20, 0, UnitSpeed, TRUE)
         EXCEPT !.contrast = UnitPercent + 50],
     [Controls(UnitPercent, 90, 2 * UnitSpeed, FALSE)
         EXCEPT !.mirror_x = TRUE]}

NextEngine ==
    \/ open_video("a.mp4", TRUE, MaxPos)
    \/ /\ export_btn /\ CanEdit /\ Len(video_segments) < MaxSegs
       /\ add_segment_to_timeline
    \/ \E row \in 0..(MaxSegs - 1) : on_timeline_item_clicked(row)
    \/ \E c \in EngineSettings : export_btn /\ CanEdit /\ apply_effects(c)
    \/ \E v \in {UnitPercent \div 2} : export_btn /\ CanEdit /\ apply_volume(v)
    \/ Started < MaxThreads /\ export_btn_clicked("out.mp4")
    \/ \E t \in DOMAIN threads, has_audio \in BOOLEAN :
          run_segment(t, has_audio, "none", "")
    \/ \E t \in DOMAIN threads : run_progress(t)
    \/ \E t \in DOMAIN threads : run_concat(t, "none", "")
    \/ \E t \in DOMAIN threads : run_write(t, FALSE, "")
    \/ \E t \in DOMAIN threads : on_export_finished(t)

SpecEngine == InitUnobserved /\ [][NextEngine]_vars

\* C26: for every segment run() issues extract(start_time, end_time), speed
\* scaling iff speed # 1, one transform per entry of the segment's effects
\* list in the stored order with none skipped, and volume scaling iff the
\* clip has audio and volume # 1; the clips are the timeline's segments in
\* timeline order.
C26_EngineOpsInOrder ==
    \A t \in DOMAIN threads :
        LET th == threads[t] IN
        \A k \in DOMAIN th.clips :
            LET seg == th.clips[k].source
                ops == th.clips[k].ops
                scaled == IF seg.speed # UnitSpeed THEN 1 ELSE 0
                n == Len(seg.effects)
            IN  /\ seg = th.start_segments[k]
                /\ ops[1] = [op |-> "subclip",
                             arg |-> <<seg.start_time, seg.end_time>>]
                /\ scaled = 1 => ops[2] = [op |-> "speedx", arg |-> seg.speed]
                /\ Len(ops) \in {1 + scaled + n, 2 + scaled + n}
                /\ \A j \in 1..n :
                      ops[1 + scaled + j].op =
                         (IF seg.effects[j].type = "brightness" THEN "colorx"
                          ELSE seg.effects[j].type)
                /\ Len(ops) = 2 + scaled + n
                      => /\ seg.volume # UnitPercent
                         /\ ops[Len(ops)] = [op |-> "volumex",
                                             arg |-> seg.volume]


(***************************************************************************)
(* SpecTotal: the total duration shown in the status bar, for timelines    *)
(* built in the window and timelines read from project files.              *)
(***************************************************************************)
\* exact fractions <<numerator, denominator>>
GCD(a, b) ==
    LET gcd[x \in 0..a, y \in 0..b] ==
            IF y = 0 THEN x
            ELSE IF x = 0 THEN y
            ELSE IF x >= y THEN gcd[x - y, y] ELSE gcd[x, y - x]
    IN  gcd[a, b]

\* num / den in lowest terms; den = 0 is float division by zero
Fraction(num, den) ==
    LET g == GCD(num, den) IN
    IF g = 0 THEN <<num, den>> ELSE <<num \div g, den \div g>>

FractionSum(x, y) == Fraction(x[1] * y[2] + y[1] * x[2], x[2] * y[2])

FractionEqual(x, y) == x[1] * y[2] = y[1] * x[2]

\* total_duration += segment.duration / segment.speed over the timeline, in
\* seconds; speed is held in hundredths
total_duration(segs) ==
    LET total[k \in 0..Len(segs)] ==
            IF k = 0 THEN Fraction(0, 1)
            ELSE FractionSum(total[k - 1],
                             Fraction(segs[k].duration * UnitSpeed,
                                      segs[k].speed))
    IN  total[Len(segs)]

\* a project file written by another program: its segment 0..MaxPos carries
\* "duration": 1
ForeignSegment == [FileSegment EXCEPT !.data.duration = 1]

TotalFiles ==
    {File("object", <<FileSegment>>, <<>>),
     File("object", <<FileSegment, ForeignSegment>>, <<>>)}

NextTotal ==
    \/ open_video("a.mp4", TRUE, MaxPos)
    \/ \E pos_ms \in PlayerPositions : set_in_point(pos_ms)
    \/ CanEdit /\ Len(video_segments) < MaxSegs /\ add_segment_to_timeline
    \/ \E row \in 0..(MaxSegs - 1) : on_timeline_item_clicked(row)
    \/ \E c \in {Controls(UnitPercent, 0, 2 * UnitSpeed, FALSE)} :
          CanEdit /\ apply_effects(c)
    \/ CanEdit /\ remove_segment
    \/ \E file \in TotalFiles : load_project(file)
    \/ undo
    \/ redo

SpecTotal == InitUnobserved /\ [][NextTotal]_vars

\* C27: the total duration update_timeline_display() reports for the
\* timeline is the sum over its segments of (end_time - start_time) / speed;
\* for segments (0, 5, speed 1) and (0, 3, speed 2) it is 6.5.
C27_TotalIsSumOfLengths ==
    LET expected[k \in 0..Len(video_segments)] ==
            IF k = 0 THEN Fraction(0, 1)
            ELSE LET seg == video_segments[k] IN
                 FractionSum(expected[k - 1],
                             Fraction((seg.end_time - seg.start_time)
                                         * UnitSpeed, seg.speed))
    IN  /\ FractionEqual(total_duration(video_segments),
                         expected[Len(video_segments)])
        /\ FractionEqual(
              total_duration(
                 <<VideoSegment("a.mp4", 0, 5, 5, <<>>, UnitPercent, UnitSpeed),
                   VideoSegment("a.mp4", 0, 3, 3, <<>>, UnitPercent,
                                2 * UnitSpeed)>>),
              Fraction(13, 2))


\* C28: an undo() or redo() that is not a no-op pops one snapshot from one
\* stack and pushes one onto the other, so len(undo_stack) + len(redo_stack)
\* stays; a successful mutation leaves redo_stack empty and the sum at
\* min(len(undo_stack) + 1, 50).
C28_StackSumKept ==
    [][/\ (undo /\ undo_stack # <<>>)
          => /\ Len(undo_stack') = Len(undo_stack) - 1
             /\ Len(redo_stack') = Len(redo_stack) + 1
       /\ (redo /\ redo_stack # <<>>)
          => /\ Len(redo_stack') = Len(redo_stack) - 1
             /\ Len(undo_stack') = Len(undo_stack) + 1
       /\ ((add_segment_to_timeline \/ apply_volume(NextVolume))
              /\ phase' = "mutated")
          => /\ redo_stack' = <<>>
             /\ Len(undo_stack') + Len(redo_stack') =
                   IF Len(undo_stack) + 1 < HistoryLimit
                   THEN Len(undo_stack) + 1 ELSE HistoryLimit
      ]_vars

\* C28 witness: a mutation on a full undo_stack and then its undo have run:
\* the two stacks hold 50 snapshots together, one of them on redo_stack.
C28_UndoneAtLimit ==
    /\ phase = "undone"
    /\ Len(undo_stack) = HistoryLimit - 1
    /\ Len(redo_stack) = 1


\* C29: undo() followed immediately by redo() returns video_segments,
\* text_overlays, undo_stack and redo_stack to their values before the undo,
\* and redo() followed immediately by undo() returns the four to their values
\* before the redo. Stated for the undo and redo that follow a mutation: the
\* mutation left the timeline post_tl, the snapshot of pre_tl on top of
\* undo_stack and redo_stack empty; its undo left the timeline restored from
\* that snapshot and the snapshot of post_tl alone on redo_stack.
C29_UndoRedoInverse ==
    [][/\ (redo /\ phase = "undone")
          => /\ video_segments' = post_tl[1]
             /\ text_overlays' = post_tl[2]
             /\ undo_stack' =
                   Append(undo_stack,
                          json_dumps(state_dict(pre_tl[1], pre_tl[2])))
             /\ redo_stack' = <<>>
       /\ (undo /\ phase = "redone")
          => LET before ==
                    json_loads(json_dumps(state_dict(pre_tl[1], pre_tl[2])))
             IN  /\ video_segments' = load_segments(before)
                 /\ text_overlays' = load_overlays(before)
                 /\ undo_stack' = SubSeq(undo_stack, 1, Len(undo_stack) - 1)
                 /\ redo_stack' =
                       <<json_dumps(state_dict(post_tl[1], post_tl[2]))>>
      ]_vars


(***************************************************************************)
(* SpecLoad: project files loaded into a window that has a history.        *)
(***************************************************************************)
NextLoad ==
    \/ open_video("a.mp4", TRUE, MaxPos)
    \/ CanEdit /\ Len(video_segments) < MaxSegs /\ add_segment_to_timeline
    \/ on_timeline_item_clicked(0)
    \/ \E v \in {UnitPercent \div 2} : CanEdit /\ apply_volume(v)
    \/ undo
    \/ redo
    \/ \E file \in ProjectFiles : load_project(file)

SpecLoad == InitUnobserved /\ [][NextLoad]_vars

\* C30: load_project(), whether it succeeds or fails, leaves undo_stack and
\* redo_stack as they were: it pushes nothing and clears nothing, so an
\* undo() or redo() after a load restores a snapshot of a timeline from
\* before the load.
C30_LoadKeepsStacks ==
    [][(\E file \in ProjectFiles : load_project(file))
       => UNCHANGED <<undo_stack, redo_stack>>
      ]_vars

\* C30 witness: a load has just failed on a window with snapshots on both
\* stacks: the lists are empty under a display that still shows segments.
C30_FailedLoadWithHistory ==
    /\ video_segments = <<>>
    /\ timeline_list > 0
    /\ undo_stack # <<>>
    /\ redo_stack # <<>>


(***************************************************************************)
(* SpecOverlays: the overlay list and its widget under the overlay         *)
(* handlers, undo, redo and project files of every kind.                   *)
(***************************************************************************)
NextOverlays ==
    \/ \E pos \in {"center", "top"} :
          /\ CanEdit
          /\ Len(text_overlays) < MaxOverlays + 1
          /\ add_text_overlay("hi", DefaultTextDuration, pos,
                              DefaultFontSize, "white", "Arial")
    \/ \E row \in 0..MaxOverlays : select_text_row(row)
    \/ CanEdit /\ remove_text_overlay
    \/ undo
    \/ redo
    \/ \E file \in ProjectFiles : load_project(file)

SpecOverlays == InitUnobserved /\ [][NextOverlays]_vars

\* C31: after any sequence of add_text_overlay, remove_text_overlay, undo,
\* redo and load_project, the widget text_list has exactly len(text_overlays)
\* rows, so its current row is a valid index into text_overlays and the
\* deletion in remove_text_overlay() never fails.
C31_OverlayRowsMatch ==
    /\ text_list = Len(text_overlays)
    /\ text_row < Len(text_overlays)
    /\ ~aborted


(***************************************************************************)
(* SpecMoves: up to MaxSegs + 1 segments of different ranges, selected and *)
(* moved up and down, with undo leaving a selection behind.                *)
(***************************************************************************)
CanMove == Len(undo_stack) < MaxEdits + 1

NextMoves ==
    \/ open_video("a.mp4", TRUE, MaxPos)
    \/ \E pos_ms \in PlayerPositions \cap {0, 1, 2} : set_in_point(pos_ms)
    \/ /\ CanMove /\ Len(video_segments) < MaxSegs + 1
       /\ add_segment_to_timeline
    \/ \E row \in 0..MaxSegs : on_timeline_item_clicked(row)
    \/ CanMove /\ move_segment_up
    \/ CanMove /\ move_segment_down
    \/ undo

SpecMoves == Init /\ [][NextMoves]_vars

\* C32: a move_segment_up() or move_segment_down() on a selected segment that
\* has a neighbour on that side swaps exactly the two, leaves every other
\* segment in place and text_overlays unchanged, and moves
\* current_segment_index with the segment, which it still designates.
C32_MoveSwapsNeighbours ==
    [][LET idx == current_segment_index
           n == Len(video_segments)
           Moved(to) ==
               /\ Len(video_segments') = n
               /\ video_segments'[to + 1] = video_segments[idx + 1]
               /\ video_segments'[idx + 1] = video_segments[to + 1]
               /\ \A k \in 1..n :
                     k \notin {idx + 1, to + 1}
                        => video_segments'[k] = video_segments[k]
               /\ text_overlays' = text_overlays
               /\ current_segment_index' = to
       IN  /\ (move_segment_up /\ 0 < idx /\ idx < n) => Moved(idx - 1)
           /\ (move_segment_down /\ 0 <= idx /\ idx < n - 1)
                 => Moved(idx + 1)
      ]_vars

\* C32 witness: the middle one of three different segments has just been
\* moved to the top, the third stayed, and the selection is on row 0.
C32_MiddleMovedUp ==
    /\ phase = "mutated"
    /\ Len(pre_tl[1]) = 3
    /\ Len(post_tl[1]) = 3
    /\ pre_tl[1][1] # pre_tl[1][2]
    /\ post_tl[1][1] = pre_tl[1][2]
    /\ post_tl[1][2] = pre_tl[1][1]
    /\ post_tl[1][3] = pre_tl[1][3]
    /\ current_segment_index = 0

====
